---- MODULE Spec2Model ----
(***************************************************************************)
(* Voxel::DepthCamera (src/Voxel/DepthCamera.cpp): the callback table, the *)
(* staged capture loop run by the capture thread, the session life cycle   *)
(* (start / stop / wait / reset) and the parameter map.                    *)
(*                                                                         *)
(* One caller context issues the public operations; every successful       *)
(* start() creates one capture thread.  Shared fields are read and written *)
(* one statement at a time (interleaving semantics).                       *)
(***************************************************************************)
EXTENDS Integers, Sequences, FiniteSets, TLC

(***************************************************************************)
(* Bounds of the model.                                                    *)
(***************************************************************************)
MaxStarts == 1
NumFns == 2
NumNames == 3
NumHandles == 2
MaxBatch == 2
MaxRestarts == 2
MaxWidth == 2
MaxHeight == 2
NumIds == 2

(***************************************************************************)
(* enum FrameCallBackType.  The values are fixed by their use in this      *)
(* file: they index _callback[] (lines 35, 42, 46), are compared with      *)
(* CALLBACK_TYPE_COUNT (line 40) and are used as shift counts (line 45).   *)
(***************************************************************************)
CALLBACK_RAW_FRAME_UNPROCESSED == 0
CALLBACK_RAW_FRAME_PROCESSED == 1
CALLBACK_DEPTH_FRAME == 2
CALLBACK_XYZI_POINT_CLOUD_FRAME == 3
CALLBACK_TYPE_COUNT == 4

Types == 0 .. (CALLBACK_TYPE_COUNT - 1)
\* arguments a caller can pass as a callback type: the valid ones and one invalid
TypeArgs == 0 .. CALLBACK_TYPE_COUNT
\* callback functions a caller can register; 0 is the empty std::function
Fns == 1 .. NumFns
Names == 1 .. NumNames
Handles == 1 .. NumHandles
\* (name, handle) pairs: a ParameterPtr and the name it reports
Params == Names \X Handles
Batches == UNION { [1 .. n -> Params] : n \in 0 .. MaxBatch }

\* the pipeline stages in the order the capture loop runs them (lines 81-108)
StageOrder == << CALLBACK_RAW_FRAME_UNPROCESSED, CALLBACK_RAW_FRAME_PROCESSED,
                 CALLBACK_DEPTH_FRAME, CALLBACK_XYZI_POINT_CLOUD_FRAME >>

VARIABLES
  _callback,                 \* [Types -> 0 .. NumFns], 0 = empty slot
  _callBackTypesRegistered,  \* the subscription mask
  _running,
  _threadActive,
  _captureThread,            \* index into threads of the handle held, 0 = none
  _programmer,               \* TRUE while the capability is held
  _streamer,
  _parameters,               \* [Names -> 0 .. NumHandles], 0 = absent
  threads,                   \* the capture threads created so far
  caller,                    \* "idle", or "joining" inside wait()
  last,                      \* the caller operation that returned last
  lastBatch,                 \* the argument of the last _addParameters
  registered,                \* stages registered successfully so far
  aborted                    \* "no", or why the process was terminated

vars == << _callback, _callBackTypesRegistered, _running, _threadActive,
           _captureThread, _programmer, _streamer, _parameters, threads,
           caller, last, lastBatch, registered, aborted >>

tableVars == << _callback, _callBackTypesRegistered, registered >>
sessionVars == << _running, _threadActive, _captureThread, threads >>
resetVars == << _programmer, _streamer >>
paramVars == << _parameters, lastBatch >>

(***************************************************************************)
(* Bit operations on uint32_t values.                                      *)
(***************************************************************************)
RECURSIVE BitOr(_, _)
BitOr(a, b) ==
  IF a = 0 THEN b
  ELSE IF b = 0 THEN a
  ELSE (IF a % 2 = 1 \/ b % 2 = 1 THEN 1 ELSE 0) + 2 * BitOr(a \div 2, b \div 2)

\* a & ~b, for a below 2^32 (the complement of the int b, converted to uint32_t)
RECURSIVE BitAndNot(_, _)
BitAndNot(a, b) ==
  IF a = 0 THEN 0
  ELSE (IF a % 2 = 1 /\ b % 2 = 0 THEN 1 ELSE 0) + 2 * BitAndNot(a \div 2, b \div 2)

\* 1 << n
Shl1(n) == 2 ^ n

\* whether bit n of mask is set
HasBit(mask, n) == (mask \div (2 ^ n)) % 2 = 1

\* what the caller sees of an operation that returned: its result, the warning
\* registerCallback logs when it overwrites (line 43), and the arguments of a
\* registerCallback
\* registerCallback reports success whatever it did
RetRegAlwaysOk(ok, warn, type, f) ==
  [op |-> "register", ok |-> TRUE, warn |-> warn, type |-> type, f |-> f]

RetReg(ok, warn, type, f) ==
  [op |-> "register", ok |-> ok, warn |-> warn, type |-> type, f |-> f]
Ret(op, ok) == [op |-> op, ok |-> ok, warn |-> FALSE, type |-> 0, f |-> 0]

\* a capture thread: where it is in _captureThreadWrapper / _captureLoop, the
\* local callBackTypesToBeCalled, the external operations and callbacks of its
\* current iteration, how often it called _stop(), and whether it was joined
\* a frame pointer that holds no frame (of the stage's type)
NullFrame == [present |-> FALSE]

\* a capture thread also holds the depth frame and the point-cloud frame of
\* its current iteration (the locals d and p of _captureLoop) and what
\* getFieldOfView answered: "none" (not asked), "failed", "zero" or "ok"
NewThread ==
  [pc |-> "init", stage |-> 0, pending |-> 0, log |-> << >>, stops |-> 0,
   joined |-> FALSE, depth |-> NullFrame, cloud |-> NullFrame, fov |-> "none"]
OpEvent(type, ok) == << "op", type, IF ok THEN 1 ELSE 0 >>
CbEvent(type, f) == << "cb", type, f >>

(***************************************************************************)
(* The state after construction: empty table, no thread, capabilities      *)
(* bound, no parameters.                                                   *)
(***************************************************************************)
Init ==
  /\ _callback = [t \in Types |-> 0]
  /\ _callBackTypesRegistered = 0
  /\ _running = FALSE
  /\ _threadActive = FALSE
  /\ _captureThread = 0
  /\ _programmer = TRUE
  /\ _streamer = TRUE
  /\ _parameters = [n \in Names |-> 0]
  /\ threads = << >>
  /\ caller = "idle"
  /\ last = Ret("none", TRUE)
  /\ lastBatch = << >>
  /\ registered = {}
  /\ aborted = "no"

(***************************************************************************)
(* DepthCamera::_addParameters (lines 13-30): insert the batch in order,   *)
(* stop at the first name already present.                                 *)
(***************************************************************************)
RECURSIVE AddLoop(_, _, _)
AddLoop(map, params, i) ==
  IF i > Len(params) THEN [map |-> map, ok |-> TRUE]
  ELSE IF map[params[i][1]] = 0
       THEN AddLoop([map EXCEPT ![params[i][1]] = params[i][2]], params, i + 1)
       ELSE [map |-> map, ok |-> FALSE]

_addParameters(params) ==
  /\ LET r == AddLoop(_parameters, params, 1) IN
       /\ _parameters' = r.map
       /\ last' = Ret("addParameters", r.ok)
  /\ lastBatch' = params
  /\ UNCHANGED << tableVars, sessionVars, resetVars, caller, aborted >>

(***************************************************************************)
(* The callback table (lines 32-51).                                       *)
(***************************************************************************)
\* line 35, for every slot
ClearedSlots == [t \in Types |-> 0]

\* clearCallback has no return statement: the value the caller receives is
\* not determined by the code
clearCallback ==
  /\ _callback' = ClearedSlots
  /\ \E ok \in BOOLEAN : last' = Ret("clear", ok)
  /\ UNCHANGED << _callBackTypesRegistered, registered, sessionVars, resetVars,
                  paramVars, caller, aborted >>

\* the mask grows by the stage id itself instead of by its bit
RegisterMaskNoShift(mask, type) == BitOr(mask, type)

\* line 45
RegisterMask(mask, type) == BitOr(mask, Shl1(type))

registerCallback(type, f) ==
  /\ IF type < CALLBACK_TYPE_COUNT
     THEN /\ _callBackTypesRegistered' = RegisterMask(_callBackTypesRegistered, type)
          /\ _callback' = [_callback EXCEPT ![type] = f]
          /\ registered' = registered \cup {type}
          /\ last' = RetReg(TRUE, _callback[type] # 0, type, f)
     ELSE /\ UNCHANGED tableVars
          /\ last' = RetReg(FALSE, FALSE, type, f)
  /\ UNCHANGED << sessionVars, resetVars, paramVars, caller, aborted >>

(***************************************************************************)
(* The session life cycle (lines 190-250).                                 *)
(***************************************************************************)
\* line 199: _callback is the array of slots itself (it is indexed at lines
\* 35, 42, 46, 57 and 76), so as a condition it is its address, never null
CallbackArray == TRUE

\* line 211: the new ThreadPtr replaces the handle held.  The Thread class is
\* declared outside this file: dropping a handle that was never joined either
\* leaves the old thread running or terminates the process (std::thread).
DropHandleOutcomes ==
  IF _captureThread # 0 /\ ~threads[_captureThread].joined
  THEN {"no", "unjoined thread handle dropped"} ELSE {"no"}

start ==
  /\ IF ~CallbackArray
     THEN /\ last' = Ret("start", FALSE)
          /\ UNCHANGED << sessionVars, aborted >>
     ELSE \E started \in BOOLEAN :          \* the driver's _start(), line 205
            IF ~started
            THEN /\ last' = Ret("start", FALSE)
                 /\ UNCHANGED << sessionVars, aborted >>
            ELSE /\ _running' = TRUE
                 /\ threads' = Append(threads, NewThread)
                 /\ _captureThread' = Len(threads) + 1
                 /\ aborted' \in DropHandleOutcomes
                 /\ last' = Ret("start", TRUE)
                 /\ UNCHANGED _threadActive
  /\ UNCHANGED << tableVars, resetVars, paramVars, caller >>

stop ==
  /\ _running' = FALSE
  /\ last' = Ret("stop", TRUE)
  /\ UNCHANGED << _threadActive, _captureThread, threads, tableVars, resetVars,
                  paramVars, caller, aborted >>

\* wait joins the handle whatever the flag says
WaitJoinsAlways(threadActive) == TRUE

\* line 224: join only when the flag is set, otherwise return at once
WaitJoins(threadActive) == threadActive

wait ==
  /\ IF WaitJoins(_threadActive)
     THEN /\ caller' = "joining"
          /\ UNCHANGED last
     ELSE /\ last' = Ret("wait", TRUE)
          /\ UNCHANGED caller
  /\ UNCHANGED << sessionVars, tableVars, resetVars, paramVars, aborted >>

\* line 225: join() returns once the thread function of the handle held has
\* returned; joining a handle joined before fails at once (ok = FALSE)
JoinReturn ==
  /\ caller = "joining"
  /\ _captureThread # 0
  /\ threads[_captureThread].pc = "done"
  /\ caller' = "idle"
  /\ last' = Ret("wait", ~threads[_captureThread].joined)
  /\ threads' = [threads EXCEPT ![_captureThread].joined = TRUE]
  /\ UNCHANGED << _running, _threadActive, _captureThread, tableVars, resetVars,
                  paramVars, aborted >>

\* the capability is released whatever the programmer's reset returned
ResetReleaseAlways(held, ok) == FALSE

\* lines 247-248 after a reset that returned ok, line 245 after one that failed
ResetRelease(held, ok) == IF ok THEN FALSE ELSE held

\* line 242 with _programmer already released dereferences a null pointer:
\* the call may end the process, or return either result
reset ==
  /\ _running' = FALSE                      \* stop(), line 239, returns true
  /\ \E outcome \in (IF _programmer THEN {"ok", "fail"}
                                   ELSE {"ok", "fail", "abort"}) :
       IF outcome = "abort"
       THEN /\ aborted' = "null programmer dereferenced"
            /\ UNCHANGED << resetVars, last >>
       ELSE /\ _programmer' = ResetRelease(_programmer, outcome = "ok")
            /\ _streamer' = ResetRelease(_streamer, outcome = "ok")
            /\ last' = Ret("reset", outcome = "ok")
            /\ UNCHANGED aborted
  /\ UNCHANGED << _threadActive, _captureThread, threads, tableVars, paramVars,
                  caller >>

(***************************************************************************)
(* The capture thread (lines 53-116 and 190-195), one statement or one     *)
(* external call per step.  i is the thread's index in threads.            *)
(***************************************************************************)
ThreadAt(i, pc) == i \in 1 .. Len(threads) /\ threads[i].pc = pc /\ aborted = "no"

callerVars == << caller, last, lastBatch, registered >>

\* line 192
ThreadEntry(i) ==
  /\ ThreadAt(i, "init")
  /\ _threadActive' = TRUE
  /\ threads' = [threads EXCEPT ![i].pc = "loop"]
  /\ UNCHANGED << _callback, _callBackTypesRegistered, _running, _captureThread,
                  resetVars, _parameters, callerVars, aborted >>

\* line 72: the fast-path test
FastPath(mask) == mask = 0 \/ mask = CALLBACK_RAW_FRAME_UNPROCESSED

\* lines 68-72: the loop test, the snapshot of the mask and the choice of path
LoopHead(i) ==
  /\ ThreadAt(i, "loop")
  /\ threads' = [threads EXCEPT ![i] =
       IF _running
       THEN [@ EXCEPT !.pc = IF FastPath(_callBackTypesRegistered)
                             THEN "fast" ELSE "op",
                      !.stage = 1,
                      !.pending = _callBackTypesRegistered,
                      !.log = << >>,
                      !.depth = NullFrame, !.cloud = NullFrame, !.fov = "none"]
       ELSE [@ EXCEPT !.pc = "exit", !.stage = 0, !.pending = 0, !.log = << >>,
                      !.depth = NullFrame, !.cloud = NullFrame, !.fov = "none"]]
  /\ UNCHANGED << _callback, _callBackTypesRegistered, _running, _threadActive,
                  _captureThread, resetVars, _parameters, callerVars, aborted >>

\* line 75, left operand: the driver's raw capture into a pooled buffer
FastCapture(i) ==
  /\ ThreadAt(i, "fast")
  /\ \E ok \in BOOLEAN :
       threads' = [threads EXCEPT
         ![i].log = Append(@, OpEvent(CALLBACK_RAW_FRAME_UNPROCESSED, ok)),
         ![i].pc = IF ok /\ CallbackArray THEN "fastcb" ELSE "loop"]
  /\ UNCHANGED << _callback, _callBackTypesRegistered, _running, _threadActive,
                  _captureThread, resetVars, _parameters, callerVars, aborted >>

\* line 76: the slot is called whatever it holds; calling an empty
\* std::function throws, and nothing in the thread catches it
FastCallback(i) ==
  /\ ThreadAt(i, "fastcb")
  /\ threads' = [threads EXCEPT
       ![i].log = Append(@, CbEvent(CALLBACK_RAW_FRAME_UNPROCESSED,
                                    _callback[CALLBACK_RAW_FRAME_UNPROCESSED])),
       ![i].pc = IF _callback[CALLBACK_RAW_FRAME_UNPROCESSED] = 0
                 THEN "thrown" ELSE "loop"]
  /\ aborted' = IF _callback[CALLBACK_RAW_FRAME_UNPROCESSED] = 0
                THEN "empty callback called" ELSE "no"
  /\ UNCHANGED << _callback, _callBackTypesRegistered, _running, _threadActive,
                  _captureThread, resetVars, _parameters, callerVars >>

(***************************************************************************)
(* DepthCamera::_convertToPointCloudFrame (lines 118-187).  A depth frame  *)
(* has an id, a timestamp, a size and one depth and one amplitude per      *)
(* pixel, indexed from 0.  Of a point the model keeps the intensity and    *)
(* the arguments of its position, r, x1 and y1: x, y and z are functions   *)
(* (sin, cos, atan) of these and of the focal length of the frame.         *)
(***************************************************************************)
DepthFrameOf(id, timestamp, w, h) ==
  [present |-> TRUE, id |-> id, timestamp |-> timestamp,
   size |-> [width |-> w, height |-> h],
   depth |-> [k \in 0 .. (w * h - 1) |-> k + 1],
   amplitude |-> [k \in 0 .. (w * h - 1) |-> 10 * (k + 1)]]

\* the depth frames a depth conversion can produce
DepthFrames ==
  {NullFrame} \cup
  { DepthFrameOf(id, ts, w, h) :
      id \in 1 .. NumIds, ts \in 1 .. NumIds, w \in 0 .. MaxWidth, h \in 0 .. MaxHeight }

\* a point of a recycled buffer, left from an earlier frame, and a point
\* that resize appends
StalePoint == [i |-> 1, r |-> 1, x1 |-> 1, y1 |-> 1]
BlankPoint == [i |-> 0, r |-> 0, x1 |-> 0, y1 |-> 0]
CloudOf(id, timestamp, points) ==
  [present |-> TRUE, id |-> id, timestamp |-> timestamp, points |-> points]

\* the buffers _pointCloudBuffers.get() can hand out (line 103): none of the
\* type, or an XYZI frame of any earlier size
PooledClouds ==
  {NullFrame} \cup
  { CloudOf(0, 0, [k \in 0 .. (n - 1) |-> StalePoint]) :
      n \in 0 .. (MaxWidth * MaxHeight + 1) }

\* lines 126-132: a new XYZIPointCloudFrame unless the buffer is one
CloudBuffer(pointCloudFrame) ==
  IF pointCloudFrame.present THEN pointCloudFrame
  ELSE CloudOf(0, 0, [k \in {} |-> BlankPoint])

\* line 136: std::vector::resize
Resize(points, n) ==
  [k \in 0 .. (n - 1) |-> IF k \in DOMAIN points THEN points[k] ELSE BlankPoint]

\* the intensity is taken from the depth array
PointAtFromDepth(depthFrame, x, y, index) ==
  [i |-> depthFrame.depth[index],
   r |-> depthFrame.depth[index],
   x1 |-> x - (depthFrame.size.width \div 2),
   y1 |-> y - (depthFrame.size.height \div 2)]

\* lines 164-181: the point written at index for pixel (x, y)
PointAt(depthFrame, x, y, index) ==
  [i |-> depthFrame.amplitude[index],
   r |-> depthFrame.depth[index],
   x1 |-> x - (depthFrame.size.width \div 2),
   y1 |-> y - (depthFrame.size.height \div 2)]

\* lines 161-184: for y, for x, with index counting the pixels visited
RECURSIVE ProjectLoop(_, _, _, _, _)
ProjectLoop(depthFrame, points, x, y, index) ==
  IF y >= depthFrame.size.height THEN points
  ELSE IF x >= depthFrame.size.width
       THEN ProjectLoop(depthFrame, points, 0, y + 1, index)
       ELSE ProjectLoop(depthFrame,
                        [points EXCEPT ![index] = PointAt(depthFrame, x, y, index)],
                        x + 1, y, index + 1)

\* a field of view of zero is accepted
FieldOfViewOkIgnoresZero(got, thetaMax) == got

\* line 149: the projection needs a field of view, and a non-zero one
FieldOfViewOk(got, thetaMax) == got /\ thetaMax # 0

\* what the query of line 149 answered
FovAnswer(got, thetaMax) ==
  IF ~got THEN "failed" ELSE IF thetaMax = 0 THEN "zero" ELSE "ok"

\* the result, the frame left in pointCloudFrame and the answer of
\* getFieldOfView; id, timestamp and size are written before the field of
\* view is asked for (lines 134-136)
_convertToPointCloudFrame(depthFrame, pointCloudFrame, got, thetaMax) ==
  IF ~depthFrame.present
  THEN [ok |-> FALSE, frame |-> pointCloudFrame, fov |-> "none"]
  ELSE LET f == CloudBuffer(pointCloudFrame)
           sized == CloudOf(depthFrame.id, depthFrame.timestamp,
                            Resize(f.points,
                                   depthFrame.size.width * depthFrame.size.height))
       IN  IF ~FieldOfViewOk(got, thetaMax)
           THEN [ok |-> FALSE, frame |-> sized, fov |-> FovAnswer(got, thetaMax)]
           ELSE [ok |-> TRUE,
                 frame |-> [sized EXCEPT
                              !.points = ProjectLoop(depthFrame, sized.points, 0, 0, 0)],
                 fov |-> FovAnswer(got, thetaMax)]

\* a failed operation is not followed by its callback
AfterOpIgnoresFailure(done) == "cb"

\* lines 81-82, 89-90, 97-98, 105-106: continue when the operation failed
AfterOp(done) == IF done THEN "cb" ELSE "loop"

\* lines 81, 89, 97, 105: the external operation of the stage.  The depth
\* conversion leaves one of frames in d; the projection writes into one of
\* the buffers of pool.
StageOpWith(i, frames, pool) ==
  /\ ThreadAt(i, "op")
  /\ LET type == StageOrder[threads[i].stage] IN
       IF type = CALLBACK_XYZI_POINT_CLOUD_FRAME
       THEN \E got \in BOOLEAN, thetaMax \in 0 .. 1, buffer \in pool :
              LET r == _convertToPointCloudFrame(threads[i].depth, buffer,
                                                 got, thetaMax)
              IN  threads' = [threads EXCEPT
                    ![i].log = Append(@, OpEvent(type, r.ok)),
                    ![i].cloud = r.frame,
                    ![i].fov = r.fov,
                    ![i].pc = AfterOp(r.ok)]
       ELSE \E ok \in BOOLEAN :
              \E d \in (IF ok /\ type = CALLBACK_DEPTH_FRAME
                         THEN frames ELSE {threads[i].depth}) :
                threads' = [threads EXCEPT
                  ![i].log = Append(@, OpEvent(type, ok)),
                  ![i].depth = d,
                  ![i].pc = AfterOp(ok)]
  /\ UNCHANGED << _callback, _callBackTypesRegistered, _running, _threadActive,
                  _captureThread, resetVars, _parameters, callerVars, aborted >>

\* a session is explored with one depth frame, or none, and a fresh buffer
SessionFrames == {NullFrame, DepthFrameOf(1, 1, 1, 1)}
SessionPool == {NullFrame}
StageOp(i) == StageOpWith(i, SessionFrames, SessionPool)

\* the slot is called without testing that it holds a callback
ShouldCallAnySlot(pending, type, slot) == BitOr(pending, type) # 0

\* line 55
ShouldCall(pending, type, slot) == BitOr(pending, type) # 0 /\ slot # 0

\* line 60
ClearPending(pending, type) == BitAndNot(pending, type)

\* lines 84-85, 92-93, 100-101, 108: _callbackAndContinue (lines 53-63) and
\* the caller's use of its result; after the last stage the result is unused
Deliver(i) ==
  /\ ThreadAt(i, "cb")
  /\ LET k == threads[i].stage
         type == StageOrder[k]
         left == ClearPending(threads[i].pending, type)
         more == left # 0
     IN  threads' = [threads EXCEPT
           ![i].log = IF ShouldCall(threads[i].pending, type, _callback[type])
                      THEN Append(@, CbEvent(type, _callback[type])) ELSE @,
           ![i].pending = left,
           ![i].stage = IF more /\ k < Len(StageOrder) THEN k + 1 ELSE k,
           ![i].pc = IF more /\ k < Len(StageOrder) THEN "op" ELSE "loop"]
  /\ UNCHANGED << _callback, _callBackTypesRegistered, _running, _threadActive,
                  _captureThread, resetVars, _parameters, callerVars, aborted >>

\* lines 112-115: the driver's _stop(), if _running is (still) false
LoopExit(i) ==
  /\ ThreadAt(i, "exit")
  /\ threads' = [threads EXCEPT
       ![i].stops = IF ~_running THEN @ + 1 ELSE @,
       ![i].pc = "return"]
  /\ UNCHANGED << _callback, _callBackTypesRegistered, _running, _threadActive,
                  _captureThread, resetVars, _parameters, callerVars, aborted >>

\* the wrapper returns without clearing the flag
ThreadReturnKeepsFlag(i) ==
  /\ ThreadAt(i, "return")
  /\ threads' = [threads EXCEPT ![i].pc = "done"]
  /\ UNCHANGED << _callback, _callBackTypesRegistered, _running, _threadActive,
                  _captureThread, resetVars, _parameters, callerVars, aborted >>

\* line 194, and the return of the thread function
ThreadReturn(i) ==
  /\ ThreadAt(i, "return")
  /\ _threadActive' = FALSE
  /\ threads' = [threads EXCEPT ![i].pc = "done"]
  /\ UNCHANGED << _callback, _callBackTypesRegistered, _running, _captureThread,
                  resetVars, _parameters, callerVars, aborted >>

ThreadStep(i) ==
  \/ ThreadEntry(i)
  \/ LoopHead(i)
  \/ FastCapture(i)
  \/ FastCallback(i)
  \/ StageOp(i)
  \/ Deliver(i)
  \/ LoopExit(i)
  \/ ThreadReturn(i)

(***************************************************************************)
(* The caller: one context, which issues an operation when the previous    *)
(* one has returned.  It changes the callback table only while no capture  *)
(* thread is running (registering or clearing during a capture is a data   *)
(* race on _callback and _callBackTypesRegistered).                        *)
(***************************************************************************)
CallerReady == caller = "idle" /\ aborted = "no"
Quiescent == \A i \in 1 .. Len(threads) : threads[i].pc = "done"

CallRegister ==
  CallerReady /\ Quiescent /\ \E type \in TypeArgs, f \in Fns : registerCallback(type, f)
\* the capture loop only tests whether a slot is empty, never which function
\* it holds: a session is explored with one function
CallSubscribe ==
  CallerReady /\ Quiescent /\ \E type \in TypeArgs : registerCallback(type, 1)
CallClear == CallerReady /\ Quiescent /\ clearCallback
CallStart == CallerReady /\ Len(threads) < MaxStarts /\ start
CallStop == CallerReady /\ stop
CallWait == CallerReady /\ wait
CallJoined == aborted = "no" /\ JoinReturn
CallReset == CallerReady /\ reset
CallAddParameters == CallerReady /\ \E params \in Batches : _addParameters(params)

Next ==
  \/ CallSubscribe
  \/ CallClear
  \/ CallStart
  \/ CallStop
  \/ CallWait
  \/ CallJoined
  \/ CallReset
  \/ \E i \in 1 .. MaxStarts : ThreadStep(i)

Spec == Init /\ [][Next]_vars

\* the capture threads are scheduled: a thread that can take a step takes one
FairSpec == Spec /\ \A i \in 1 .. MaxStarts : WF_vars(ThreadStep(i))

\* the callback table on its own, with every function a caller can register
TableNext == CallRegister \/ CallClear
TableSpec == Init /\ [][TableNext]_vars

\* the parameter map on its own
ParamNext == CallAddParameters
ParamSpec == Init /\ [][ParamNext]_vars

\* lines 57 and 76 hand the camera to the callback, which may register a
\* callback on it from the capture thread.  Nothing between the call of the
\* callback and the next read of the table (line 70 or line 55 of the next
\* stage) reads the table, so the registration is taken as a step of its own
\* right after the step that called the callback.
CallbackRegisters(i) ==
  /\ i \in 1 .. Len(threads)
  /\ aborted = "no"
  /\ threads[i].pc \in {"op", "loop"}
  /\ threads[i].log # << >>
  /\ LET e == threads[i].log[Len(threads[i].log)] IN e[1] = "cb" /\ e[3] # 0
  /\ \E type \in TypeArgs : registerCallback(type, 1)

\* one capture session with every depth frame and every recycled buffer
ProjectStageOp(i) == StageOpWith(i, DepthFrames, PooledClouds)
ProjectStart == CallerReady /\ threads = << >> /\ start
ProjectNext ==
  \/ CallSubscribe
  \/ ProjectStart
  \/ CallStop
  \/ ThreadEntry(1)
  \/ LoopHead(1)
  \/ FastCapture(1)
  \/ FastCallback(1)
  \/ ProjectStageOp(1)
  \/ Deliver(1)
  \/ LoopExit(1)
  \/ ThreadReturn(1)
ProjectSpec == Init /\ [][ProjectNext]_vars

\* a camera started again, up to MaxRestarts calls of start(); the caller
\* starts only a camera that is new or that it has stopped
CallRestart == CallerReady /\ ~_running /\ Len(threads) < MaxRestarts /\ start
RestartNext ==
  \/ CallSubscribe
  \/ CallRestart
  \/ CallStop
  \/ CallWait
  \/ CallJoined
  \/ \E i \in 1 .. MaxRestarts : ThreadStep(i)
RestartSpec == Init /\ [][RestartNext]_vars

\* a session whose callbacks register callbacks
ReentrantNext ==
  \/ CallSubscribe
  \/ CallStart
  \/ CallStop
  \/ \E i \in 1 .. MaxStarts : ThreadStep(i)
  \/ \E i \in 1 .. MaxStarts : CallbackRegisters(i)
ReentrantSpec == Init /\ [][ReentrantNext]_vars

(***************************************************************************)
(* Properties.                                                             *)
(***************************************************************************)
Live == 1 .. Len(threads)
\* exactly the stages of S hold a callback
OnlySubscribed(S) == \A t \in Types : (_callback[t] # 0) <=> (t \in S)
\* the external operations thread i has invoked in its current iteration
OpsRun(i) ==
  { threads[i].log[k][2] : k \in { j \in 1 .. Len(threads[i].log) :
                                     threads[i].log[j][1] = "op" } }
\* the callbacks thread i has invoked in its current iteration
CallbacksRun(i) ==
  { threads[i].log[k][2] : k \in { j \in 1 .. Len(threads[i].log) :
                                     threads[i].log[j][1] = "cb" } }
\* no external operation of the iteration failed
AllOk(i) ==
  \A k \in 1 .. Len(threads[i].log) :
     threads[i].log[k][1] = "op" => threads[i].log[k][3] = 1
IsPrefix(a, b) == Len(a) <= Len(b) /\ \A k \in 1 .. Len(a) : a[k] = b[k]
\* thread i has finished an iteration and not begun the next
IterationDone(i) == threads[i].pc = "loop" /\ threads[i].log # << >>

\* C1: start() called while the subscription mask is empty returns failure,
\* leaves _running false and launches no capture thread, so _threadActive
\* stays false.
C1_StartWithEmptyMaskFails ==
  (last.op = "start" /\ _callBackTypesRegistered = 0) =>
     (~last.ok /\ ~_running /\ threads = << >> /\ ~_threadActive)

\* C2: when RAW_UNPROCESSED is the only stage with a registered callback, an
\* iteration of the capture loop invokes no external operation but the raw
\* capture (the fast path): no raw processing, depth conversion or
\* point-cloud projection.
C2_RawOnlyTakesFastPath ==
  \A i \in Live :
     OnlySubscribed({CALLBACK_RAW_FRAME_UNPROCESSED}) =>
        OpsRun(i) \subseteq {CALLBACK_RAW_FRAME_UNPROCESSED}

\* C3: with a non-empty set of subscribed stages, an iteration invokes the
\* raw processing, the depth conversion or the point-cloud projection only
\* if that stage or a deeper one has a registered callback.
C3_StageRunsOnlyIfWanted ==
  \A i \in Live :
     (\E t \in Types : _callback[t] # 0) =>
        \A op \in OpsRun(i) \ {CALLBACK_RAW_FRAME_UNPROCESSED} :
           \E t \in Types : t >= op /\ _callback[t] # 0

\* the events of a full iteration that ends with the POINT_CLOUD callback
FullPathToPointCloud ==
  << OpEvent(CALLBACK_RAW_FRAME_UNPROCESSED, TRUE),
     OpEvent(CALLBACK_RAW_FRAME_PROCESSED, TRUE),
     OpEvent(CALLBACK_DEPTH_FRAME, TRUE),
     OpEvent(CALLBACK_XYZI_POINT_CLOUD_FRAME, TRUE),
     CbEvent(CALLBACK_XYZI_POINT_CLOUD_FRAME,
             _callback[CALLBACK_XYZI_POINT_CLOUD_FRAME]) >>

\* C4: when POINT_CLOUD is the only stage with a registered callback and no
\* external operation fails, an iteration invokes raw capture, raw
\* processing, depth conversion and point-cloud projection once each in that
\* order and then delivers exactly one callback, the POINT_CLOUD one.
C4_PointCloudOnlyFullPath ==
  \A i \in Live :
     (OnlySubscribed({CALLBACK_XYZI_POINT_CLOUD_FRAME}) /\ AllOk(i)) =>
        /\ IsPrefix(threads[i].log, FullPathToPointCloud)
        /\ IterationDone(i) => threads[i].log = FullPathToPointCloud

C4_Witness ==
  \E i \in Live :
     /\ OnlySubscribed({CALLBACK_XYZI_POINT_CLOUD_FRAME})
     /\ IterationDone(i)
     /\ threads[i].log = FullPathToPointCloud

\* C5: after a successful start(), wait() returns only after the thread
\* function of the capture thread has returned.
C5_WaitReturnsAfterThread ==
  (last.op = "wait" /\ _captureThread # 0 /\ _callBackTypesRegistered # 0) =>
     threads[_captureThread].pc = "done"

\* the driver's _stop() is called at most once by a thread, and only after
\* its loop has ended
StopOnlyOnExit ==
  \A i \in Live :
     /\ threads[i].stops <= 1
     /\ threads[i].stops = 1 => threads[i].pc \in {"return", "done"}
\* stop() was the last operation after the start() that created thread i
StoppedAfterStart(i) ==
  Len(threads) = i /\ last.op = "stop" /\ ~_running /\ aborted = "no"
\* thread i left the loop, called _stop() once and cleared _threadActive
ExitedCleanly(i) ==
  Len(threads) = i /\ threads[i].pc = "done" /\ threads[i].stops = 1
\* the caller started again, or ended the process by a reset() without programmer
CallerMovedOn(i) ==
  Len(threads) > i \/ aborted = "null programmer dereferenced"

\* C6: after a successful start() followed by stop(), with no further
\* start(), the scheduled capture thread eventually leaves the loop, calls
\* the driver's _stop() exactly once and then clears _threadActive; _stop()
\* is never called while the loop is iterating.
C6_StopEndsTheThread ==
  /\ []StopOnlyOnExit
  /\ \A i \in 1 .. MaxStarts :
        StoppedAfterStart(i) ~> (ExitedCleanly(i) \/ CallerMovedOn(i))

\* C6 for sessions started with a callback registered
C6_WithCallbackRegistered ==
  /\ []StopOnlyOnExit
  /\ \A i \in 1 .. MaxStarts :
        (StoppedAfterStart(i) /\ _callBackTypesRegistered # 0)
           ~> (ExitedCleanly(i) \/ CallerMovedOn(i))

\* C7: bit i of the subscription mask is set iff slot i holds a callback;
\* after clearCallback every slot is empty and the mask is zero.
C7_MaskMatchesSlots ==
  /\ \A t \in Types : HasBit(_callBackTypesRegistered, t) <=> (_callback[t] # 0)
  /\ last.op = "clear" =>
        (_callBackTypesRegistered = 0 /\ \A t \in Types : _callback[t] = 0)

\* some name of the batch is already in the map
Collides(map, params) == \E k \in 1 .. Len(params) : map[params[k][1]] # 0

\* C8: _addParameters with a batch in which a name collides with a name
\* already in the map returns failure and leaves the map as it was.
C8_CollidingBatchChangesNothing ==
  [][\A params \in Batches :
       (_addParameters(params) /\ Collides(_parameters, params)) =>
          (~last'.ok /\ _parameters' = _parameters)]_vars

\* C9: reset() sets _running to false; when the programmer's reset fails it
\* returns failure and leaves programmer and streamer as they were; when it
\* succeeds it returns success and both are released.
C9_ResetReleasesOnlyOnSuccess ==
  [][(reset /\ aborted' = "no") =>
       /\ ~_running'
       /\ last'.op = "reset"
       /\ last'.ok => (~_programmer' /\ ~_streamer')
       /\ ~last'.ok => (_programmer' = _programmer /\ _streamer' = _streamer)]_vars

\* a reset() that failed while a capture thread exists: the capabilities are kept
C9_Witness ==
  /\ last.op = "reset" /\ ~last.ok
  /\ _programmer /\ _streamer /\ ~_running
  /\ Len(threads) > 0

\* the union of the bits 1 << t of the stages in S
RECURSIVE MaskOf(_)
MaskOf(S) ==
  IF S = {} THEN 0
  ELSE LET t == CHOOSE x \in S : TRUE IN (2 ^ t) + MaskOf(S \ {t})

\* C10: the subscription mask is the union of the bits 1 << t of the stages
\* registered so far; registering a stage that has a callback puts the new
\* callback in the slot and leaves the mask unchanged.
C10_MaskIsUnionOfRegistered ==
  /\ [](_callBackTypesRegistered = MaskOf(registered))
  /\ [][\A type \in Types, f \in Fns :
          (registerCallback(type, f) /\ _callback[type] # 0) =>
             /\ _callback'[type] = f
             /\ \A t \in Types \ {type} : _callback'[t] = _callback[t]
             /\ _callBackTypesRegistered' = _callBackTypesRegistered]_vars

\* a second registration of a stage that replaced the callback, two stages known
C10_Witness ==
  /\ last.op = "register" /\ last.ok /\ last.warn
  /\ _callback[last.type] = last.f
  /\ Cardinality(registered) >= 2

\* C11: registerCallback with a stage id outside the known stages returns
\* failure and changes neither a slot nor the registered mask
C11_UnknownStageRejected ==
  [][\A type \in TypeArgs \ Types, f \in Fns :
       registerCallback(type, f) =>
         /\ ~last'.ok
         /\ _callback' = _callback
         /\ _callBackTypesRegistered' = _callBackTypesRegistered]_vars

\* an unknown stage id was refused while the table held a callback
C11_Witness ==
  /\ last.op = "register" /\ ~last.ok
  /\ last.type \notin Types
  /\ \E t \in Types : _callback[t] # 0 /\ HasBit(_callBackTypesRegistered, t)

\* C12: wait() called while no capture thread is running (before any start(),
\* or after every capture thread has finished) returns at once, joins nothing
\* and leaves the session as it was
C12_WaitReturnsAtOnceWithoutThread ==
  /\ [](Quiescent => ~_threadActive)
  /\ [][(wait /\ Quiescent) =>
          /\ caller' = "idle"
          /\ last' = Ret("wait", TRUE)
          /\ UNCHANGED << _running, _threadActive, _captureThread, threads >>]_vars

\* wait() has returned before any start(), with a callback registered
C12_Witness ==
  /\ last.op = "wait" /\ last.ok /\ caller = "idle"
  /\ threads = << >> /\ ~_threadActive /\ ~_running
  /\ _callBackTypesRegistered # 0

\* C13: a deliver step for stage s clears exactly the bit of s from the
\* pending mask, whether or not the callback fired, and the loop goes on to
\* the next stage exactly if the resulting mask is not zero
C13_DeliverClearsOwnBit ==
  [][\A i \in 1 .. MaxStarts :
       Deliver(i) =>
         /\ threads'[i].pending =
              BitAndNot(threads[i].pending, Shl1(StageOrder[threads[i].stage]))
         /\ threads[i].stage < Len(StageOrder) =>
              (threads'[i].pc = "op" <=> threads'[i].pending # 0)]_vars

\* C14: in the full path the callback of a stage whose frame was produced
\* is invoked exactly if the bit of the stage is in the pending mask of the
\* iteration and the slot of the stage holds a callback
C14_CallbackIffBitAndSlot ==
  [][\A i \in 1 .. MaxStarts :
       Deliver(i) =>
         LET type == StageOrder[threads[i].stage] IN
           (threads'[i].log # threads[i].log) <=>
             (HasBit(threads[i].pending, type) /\ _callback[type] # 0)]_vars

\* the external operations of the current iteration of thread i, in the order
\* they were invoked
OpSeq(i) == SelectSeq(threads[i].log, LAMBDA e : e[1] = "op")
StagesInOrder(i) ==
  LET log == threads[i].log
      ops == OpSeq(i)
  IN  /\ \A j \in 1 .. Len(ops) :
           /\ ops[j][2] = StageOrder[j]
           /\ j < Len(ops) => ops[j][3] = 1
      /\ \A k \in 1 .. Len(log) :
           /\ log[k][1] = "cb" => (k > 1 /\ log[k - 1] = OpEvent(log[k][2], TRUE))
           /\ (log[k][1] = "op" /\ log[k][3] = 0) =>
                (k = Len(log) /\ threads[i].pc = "loop")

\* C15: within an iteration the stages run in the order capture, processing,
\* depth, point cloud, each operation after its predecessor succeeded; a
\* failed operation is followed neither by its callback nor by anything of a
\* deeper stage, and while _running holds the loop starts the next iteration
C15_StagesInOrderFailureEndsIteration ==
  /\ [](\A i \in Live : StagesInOrder(i))
  /\ [][\A i \in 1 .. MaxStarts :
          (LoopHead(i) /\ _running) => threads'[i].pc \in {"fast", "op"}]_vars

\* the depth conversion failed after an earlier callback of the iteration was
\* delivered, and the thread is back at the head of the loop, still running
C15_Witness ==
  \E i \in Live :
    LET log == threads[i].log IN
      /\ Len(log) > 1
      /\ log[Len(log)] = OpEvent(CALLBACK_DEPTH_FRAME, FALSE)
      /\ \E k \in 1 .. Len(log) : log[k][1] = "cb"
      /\ threads[i].pc = "loop" /\ _running /\ aborted = "no"

\* where a thread is between lines 192 and 194 of _captureThreadWrapper
InWrapper == {"loop", "fast", "fastcb", "op", "cb", "exit", "return"}

\* C16: while the process lives, _threadActive is true only if a capture
\* thread is inside the thread wrapper: it is false before the first start(),
\* after a start() that failed, and once the capture loop has returned
C16_ThreadActiveOnlyInsideWrapper ==
  aborted = "no" =>
    (_threadActive => \E i \in Live : threads[i].pc \in InWrapper)

\* a capture thread ran, was stopped and has left the wrapper: the flag is
\* false again
C16_Witness ==
  /\ threads # << >>
  /\ \A i \in Live : threads[i].pc = "done" /\ threads[i].stops = 1
  /\ ~_threadActive
  /\ aborted = "no"

\* the callbacks thread i has invoked in its current iteration, by stage
StagesDelivered(i) ==
  { threads[i].log[k][2] :
      k \in { j \in 1 .. Len(threads[i].log) : threads[i].log[j][1] = "cb" } }
EarlierStages ==
  {CALLBACK_RAW_FRAME_UNPROCESSED, CALLBACK_RAW_FRAME_PROCESSED, CALLBACK_DEPTH_FRAME}

\* C17: when getFieldOfView fails or reports zero the projection returns
\* failure and the point-cloud callback is not invoked in that iteration,
\* registered or not, while the callbacks of the earlier stages have been
\* delivered
C17_NoFieldOfViewNoPointCloud ==
  \A i \in Live :
    threads[i].fov \in {"failed", "zero"} =>
      /\ threads[i].log[Len(threads[i].log)] =
           OpEvent(CALLBACK_XYZI_POINT_CLOUD_FRAME, FALSE)
      /\ threads[i].pc = "loop"
      /\ CALLBACK_XYZI_POINT_CLOUD_FRAME \notin StagesDelivered(i)
      /\ \A t \in EarlierStages : _callback[t] # 0 => t \in StagesDelivered(i)

\* the field of view was reported as zero with callbacks registered for the
\* point cloud and for an earlier stage
C17_Witness ==
  \E i \in Live :
    /\ threads[i].fov = "zero"
    /\ _callback[CALLBACK_XYZI_POINT_CLOUD_FRAME] # 0
    /\ StagesDelivered(i) # {}

\* thread i has projected the depth frame of its current iteration
Projected(i) ==
  \E k \in 1 .. Len(threads[i].log) :
    threads[i].log[k] = OpEvent(CALLBACK_XYZI_POINT_CLOUD_FRAME, TRUE)

\* C18: a successful projection of a depth frame of w by h pixels yields
\* exactly w * h points, with the id and the timestamp of the depth frame;
\* the point at index y * w + x is the point of pixel (x, y) and carries the
\* intensity amplitude[y * w + x]
C18_ProjectionKeepsSizeIdAndIntensity ==
  \A i \in Live :
    Projected(i) =>
      LET d == threads[i].depth
          c == threads[i].cloud
          w == d.size.width
          h == d.size.height
      IN  /\ d.present /\ c.present
          /\ DOMAIN c.points = 0 .. (w * h - 1)
          /\ c.id = d.id
          /\ c.timestamp = d.timestamp
          /\ \A x \in 0 .. (w - 1), y \in 0 .. (h - 1) :
               /\ c.points[y * w + x].i = d.amplitude[y * w + x]
               /\ c.points[y * w + x].x1 = x - (w \div 2)
               /\ c.points[y * w + x].y1 = y - (h \div 2)

\* a depth frame of the largest size, whose id differs from its timestamp,
\* was projected
C18_Witness ==
  \E i \in Live :
    /\ Projected(i)
    /\ threads[i].depth.size = [width |-> MaxWidth, height |-> MaxHeight]
    /\ threads[i].depth.id # threads[i].depth.timestamp
    /\ threads[i].cloud.points[MaxWidth * MaxHeight - 1].i =
         10 * MaxWidth * MaxHeight

\* C19: the capture loop never invokes an empty callback slot, on the fast
\* path or on the full path, whatever was registered, cleared and started
C19_NoEmptySlotInvoked ==
  \A i \in Live :
    \A k \in 1 .. Len(threads[i].log) :
      threads[i].log[k][1] = "cb" => threads[i].log[k][3] # 0

\* where a thread is inside the while loop of _captureLoop (lines 68-110)
InLoop == {"loop", "fast", "fastcb", "op", "cb"}

\* C20: whatever the sequence and interleaving of start(), stop() and wait(),
\* at most one capture thread executes the capture loop at a time
C20_AtMostOneThreadInLoop ==
  aborted = "no" =>
    Cardinality({ i \in Live : threads[i].pc \in InLoop }) <= 1

====
